---- MODULE Spec2Model ----
(***************************************************************************)
(* RAID5 recovery tools: the nbdkit block translator (nbd_raid5.py) and    *)
(* the forensic tool (recovery.py), modelled on small image sets.          *)
(*                                                                         *)
(* A byte is a number in 0..255, a file is a sequence of bytes, a file     *)
(* name is a string.  The literal 1024 (bytes per KB) of the source is     *)
(* scaled down to BytesPerKB so that pages are a few bytes long.           *)
(***************************************************************************)
EXTENDS Integers, Sequences, FiniteSets, TLC

VARIABLES
    files,       \* the disk: file name -> content (sequence of bytes)
    D,           \* the logical volume the image set was striped from
    geometry,    \* nbd_raid5: the handle's list of DiskGeometry tuples
    pagesizeKB,  \* the page size in KB: config()'s global, --page-size
    fdpos,       \* nbd_raid5: the handle's fd dict, image id -> seek position
    reqs,        \* nbd_raid5: the pread requests in flight (concurrent serving)
    out          \* arguments and result of the operation that ran

vars == <<files, D, geometry, pagesizeKB, fdpos, reqs, out>>

(***************************** bounds **************************************)
MaxDisks == 4
NumPages == 12
BytesPerKB == 1
MaxOffset == 12
MaxBuf == 9
MaxBadPage == 1

PageSizesKB == {2, 3}

(*************************** Python helpers ********************************)
Min(a, b) == IF a < b THEN a ELSE b

\* list[i] with a negative i counts from the end
PyIndex(i, n) == IF i < 0 THEN i + n ELSE i

\* integer ^ on bytes
RECURSIVE BXor(_, _)
BXor(a, b) ==
    IF a = 0 THEN b
    ELSE IF b = 0 THEN a
    ELSE (((a % 2) + (b % 2)) % 2) + 2 * BXor(a \div 2, b \div 2)

\* numpy's elementwise ^ of two arrays of the same length
ArrXor(a, b) == [i \in 1..Len(a) |-> BXor(a[i], b[i])]

\* f.seek(pos); f.read(n): short at the end of the file
FileRead(content, pos, n) ==
    IF pos >= Len(content) THEN <<>>
    ELSE SubSeq(content, pos + 1, Min(pos + n, Len(content)))

Reverse(s) == [i \in 1..Len(s) |-> s[Len(s) + 1 - i]]

RECURSIVE Flatten(_)
Flatten(ss) == IF ss = <<>> THEN <<>> ELSE Head(ss) \o Flatten(Tail(ss))

\* range(a, b)
PyRange(a, b) == [i \in 1..(IF b > a THEN b - a ELSE 0) |-> a + i - 1]

\* faulty variant: the indices left unsorted
argsort_identity(s) == [i \in 1..Len(s) |-> i - 1]

\* np.argsort: the 0-based indices ordered by value
RECURSIVE argsort_from(_, _)
argsort_from(s, remaining) ==
    IF remaining = {} THEN <<>>
    ELSE LET m == CHOOSE i \in remaining :
                      \A j \in remaining : s[i] < s[j] \/ (s[i] = s[j] /\ i <= j)
         IN  <<m - 1>> \o argsort_from(s, remaining \ {m})

argsort(s) == argsort_from(s, DOMAIN s)

(***************************** stripe map **********************************)
\* recovery.py raid5_stripes
RECURSIVE stripes_loop(_, _, _, _, _)
stripes_loop(stripes, disk, ndisks, offset, base) ==
    IF disk >= ndisks - 1 THEN stripes
    ELSE stripes_loop(
             [stripes EXCEPT ![PyIndex(disk - offset, ndisks) + 1] = disk + base],
             disk + 1, ndisks, offset, base)

\* faulty variant: first_stripe = page_index * ndisks
raid5_stripes_wrong_base(ndisks, page_index, start) ==
    stripes_loop([i \in 1..ndisks |-> -1], 0, ndisks, page_index % ndisks,
                 page_index * ndisks + start)

\* faulty variant: stripes[disk + offset] (the parity rotates the other way)
raid5_stripes_right_rotation(ndisks, page_index, start) ==
    stripes_loop([i \in 1..ndisks |-> -1], 0, ndisks,
                 (ndisks - (page_index % ndisks)) % ndisks,
                 page_index * (ndisks - 1) + start)

raid5_stripes(ndisks, page_index, start) ==
    LET stripes == [i \in 1..ndisks |-> -1]
        offset == page_index % ndisks
        first_stripe == page_index * (ndisks - 1)
    IN  stripes_loop(stripes, 0, ndisks, offset, first_stripe + start)

\* nbd_raid5.py raid5_stripes
RECURSIVE nbd_stripes_loop(_, _, _, _, _)
nbd_stripes_loop(stripes, disk, ndisks, offset, base) ==
    IF disk >= ndisks - 1 THEN stripes
    ELSE nbd_stripes_loop(
             [stripes EXCEPT ![PyIndex(disk - offset, ndisks) + 1] = disk + base],
             disk + 1, ndisks, offset, base)

nbd_raid5_stripes(ndisks, page_index, start) ==
    LET stripes == [i \in 1..ndisks |-> -1]
        offset == page_index % ndisks
        first_stripe == page_index * (ndisks - 1)
    IN  nbd_stripes_loop(stripes, 0, ndisks, offset, first_stripe + start)

(************************ synthesised image sets ***************************)
\* What is on disk: an image set striped from a volume D with the
\* raid5_stripes layout and XOR parity, possibly damaged, a further
\* candidate image, and the members cut in two pieces for split geometries.
MemberNames == <<"a.img", "b.img", "c.img", "d.img", "e.img", "f.img">>
LowNames == <<"a0.img", "b0.img", "c0.img", "d0.img", "e0.img", "f0.img">>
HighNames == <<"a1.img", "b1.img", "c1.img", "d1.img", "e1.img", "f1.img">>
ExtraName == "x.img"

DataKinds == {"ramp", "paired"}
ExtraKinds == {"copy", "zero"}
GeometryKinds == {"full", "split", "gaplow", "gaphigh"}

Pow2(d) == IF d = 0 THEN 1 ELSE IF d = 1 THEN 2 ELSE IF d = 2 THEN 4 ELSE 8

\* "paired": the byte filling data page d of stripe s; the data pages of a
\* stripe are non-zero and XOR to zero, so the parity page is all zero
PairedLow(s, d) == Pow2(d) + 16 * (s % 8)

RECURSIVE PairedFold(_, _)
PairedFold(s, d) ==
    IF d = 0 THEN 0 ELSE BXor(PairedFold(s, d - 1), PairedLow(s, d - 1))

PairedValue(n, s, d) ==
    IF d < n - 2 THEN PairedLow(s, d) ELSE PairedFold(s, n - 2)

Volume(kind, n, P) ==
    [i \in 1..(NumPages * (n - 1) * P) |->
        IF kind = "ramp" THEN ((7 * i) % 251) + 1
        ELSE LET page == (i - 1) \div P
             IN  PairedValue(n, page \div (n - 1), page % (n - 1))]

DataPage(vol, k, P) == SubSeq(vol, k * P + 1, (k + 1) * P)

RECURSIVE XorPages(_, _, _, _)
XorPages(vol, first, count, P) ==
    IF count = 1 THEN DataPage(vol, first, P)
    ELSE ArrXor(XorPages(vol, first, count - 1, P),
                DataPage(vol, first + count - 1, P))

\* left-rotating layout: data page d of stripe s is in column (d - r) mod n,
\* r = s mod n; the column left over holds the parity
DataColumn(n, s, d) == (d - (s % n)) % n

\* the page of member column c in stripe s
MemberPage(vol, n, P, c, s) ==
    IF \E d \in 0..(n - 2) : DataColumn(n, s, d) = c
    THEN LET d == CHOOSE e \in 0..(n - 2) : DataColumn(n, s, e) = c
         IN  DataPage(vol, s * (n - 1) + d, P)
    ELSE XorPages(vol, s * (n - 1), n - 1, P)

MemberFile(vol, n, P, c) ==
    Flatten([i \in 1..(Len(vol) \div ((n - 1) * P)) |->
                 MemberPage(vol, n, P, c, i - 1)])

\* damage: the first byte of every page in bad is changed
Damaged(content, bad, P) ==
    [i \in 1..Len(content) |->
        IF (i - 1) % P = 0 /\ ((i - 1) \div P) \in bad
        THEN BXor(content[i], 1) ELSE content[i]]

\* members are cut in two after this page for the split geometries
SplitPage(n) == n - 1

DiskFiles(n, P, kind, bad, extra) ==
    LET vol == Volume(kind, n, P)
        member(c) == IF c = 0 THEN Damaged(MemberFile(vol, n, P, 0), bad, P)
                     ELSE MemberFile(vol, n, P, c)
        cut == SplitPage(n) * P
        names == {MemberNames[c] : c \in 1..n} \cup {LowNames[c] : c \in 1..n}
                 \cup {HighNames[c] : c \in 1..n} \cup {ExtraName}
        col(name) == (CHOOSE c \in 1..n :
                         name \in {MemberNames[c], LowNames[c], HighNames[c]}) - 1
    IN  [name \in names |->
            IF name = ExtraName
            THEN IF extra = "copy" THEN MemberFile(vol, n, P, 0)
                 ELSE [i \in 1..(NumPages * P) |-> 0]
            ELSE IF name = MemberNames[col(name) + 1] THEN member(col(name))
            ELSE IF name = LowNames[col(name) + 1]
                 THEN SubSeq(member(col(name)), 1, cut)
            ELSE SubSeq(member(col(name)), cut + 1, NumPages * P)]

\* the DiskGeometry tuples of a geometry file (extents in KB)
DiskGeometry(id, raid_index, fname, startKB, endKB) ==
    [id |-> id, raid_index |-> raid_index, fname |-> fname,
     startKB |-> startKB, endKB |-> endKB]

Geometry(n, pKB, gkind) ==
    \* the gap geometries leave out one piece of member 1
    LET whole(c) == <<DiskGeometry(MemberNames[c + 1], c, MemberNames[c + 1],
                                   0, NumPages * pKB)>>
        low(c) == <<DiskGeometry(LowNames[c + 1], c, LowNames[c + 1],
                                 0, SplitPage(n) * pKB)>>
        high(c) == <<DiskGeometry(HighNames[c + 1], c, HighNames[c + 1],
                                  SplitPage(n) * pKB, NumPages * pKB)>>
        images(c) ==
            IF gkind = "full" THEN whole(c)
            ELSE IF gkind = "gaplow" /\ c = 1 THEN high(c)
            ELSE IF gkind = "gaphigh" /\ c = 1 THEN low(c)
            ELSE low(c) \o high(c)
    IN  Flatten([i \in 1..n |-> images(i - 1)])

Scenarios ==
    {s \in [n : 3..MaxDisks, pKB : PageSizesKB, kind : DataKinds,
            bad : SUBSET (0..MaxBadPage), extra : ExtraKinds,
            geom : GeometryKinds] :
        (s.bad = {} /\ s.extra = "copy") \/ s.geom = "full"}

NoOp == [op |-> "none"]

InitScenario(s) ==
    /\ files = DiskFiles(s.n, s.pKB * BytesPerKB, s.kind, s.bad, s.extra)
    /\ D = Volume(s.kind, s.n, s.pKB * BytesPerKB)
    /\ geometry = Geometry(s.n, s.pKB, s.geom)
    /\ pagesizeKB = s.pKB
    /\ fdpos = [id \in {geometry[i].id : i \in 1..Len(geometry)} |-> 0]
    /\ out = NoOp

Init ==
    /\ \E s \in Scenarios : InitScenario(s)
    /\ reqs = <<>>

(***************************** recovery.py *********************************)
read_page(fname, pagesize, page) ==
    FileRead(files[fname], page * pagesize, pagesize)

\* functools.reduce(operator.xor, chunks) on a non-empty list
RECURSIVE xor_reduce(_)
xor_reduce(chunks) ==
    IF Len(chunks) = 1 THEN chunks[1]
    ELSE xor_reduce(<<ArrXor(chunks[1], chunks[2])>>
                    \o SubSeq(chunks, 3, Len(chunks)))

parity_check(data_chunks) ==
    LET parity == xor_reduce(Tail(data_chunks))
    IN  data_chunks[1] = parity

\* itertools.combinations(s, r), in its lexicographic order
RECURSIVE combinations(_, _)
combinations(s, r) ==
    IF r = 0 THEN << <<>> >>
    ELSE IF Len(s) < r THEN <<>>
    ELSE LET with_head == combinations(Tail(s), r - 1)
         IN  [i \in 1..Len(with_head) |-> <<Head(s)>> \o with_head[i]]
             \o combinations(Tail(s), r)

\* detected[comb].append(check) on the defaultdict(list), keys in insertion order
detected_append(detected, comb, check) ==
    IF \E i \in 1..Len(detected) : detected[i].comb = comb
    THEN LET i == CHOOSE j \in 1..Len(detected) : detected[j].comb = comb
         IN  [detected EXCEPT ![i].checks = Append(@, check)]
    ELSE Append(detected, [comb |-> comb, checks |-> <<check>>])

\* faulty variant: no break
never_breaks(check, test_all) == FALSE

\* the break of the loop over the combinations of one page
breaks_page(check, test_all) == check /\ ~test_all

\* the loop over the combinations of one page; st = [detected, k] is the
\* dict and the position in the combinations
RECURSIVE guess_set_combs(_, _, _, _, _)
guess_set_combs(st, combs, pagesize, page, test_all) ==
    IF st.k > Len(combs) THEN st.detected
    ELSE LET comb == combs[st.k]
             data == [i \in 1..Len(comb) |-> read_page(comb[i], pagesize, page)]
             check == parity_check(data)
             appended == detected_append(st.detected, comb, check)
         IN  IF breaks_page(check, test_all) THEN appended
             ELSE guess_set_combs([detected |-> appended, k |-> st.k + 1],
                                  combs, pagesize, page, test_all)

\* the loop over the pages; st = [detected, p]
RECURSIVE guess_set_pages(_, _, _, _, _)
guess_set_pages(st, combs, pages, pagesize, test_all) ==
    IF st.p > Len(pages) THEN st.detected
    ELSE guess_set_pages(
             [detected |-> guess_set_combs([detected |-> st.detected, k |-> 1],
                                           combs, pagesize, pages[st.p], test_all),
              p |-> st.p + 1],
             combs, pages, pagesize, test_all)

\* faulty variant: any(detected[comb])
any_check(checks) == \E i \in 1..Len(checks) : checks[i]

\* all(detected[comb])
all_checks(checks) == \A i \in 1..Len(checks) : checks[i]

guess_set(fnames, ndisks, pagesize, pages, test_all) ==
    LET detected == guess_set_pages([detected |-> <<>>, p |-> 1],
                                    combinations(fnames, ndisks), pages,
                                    pagesize, test_all)
        good(d) == all_checks(d.checks)
        kept == SelectSeq(detected, good)
    IN  [detected |-> detected,
         good_combs |-> [i \in 1..Len(kept) |-> kept[i].comb]]

\* test_parity: st = [passed, check, bound, p]; check is unbound before the
\* first page
RECURSIVE test_parity_loop(_, _, _, _)
test_parity_loop(fnames, pagesize, pages, st) ==
    IF st.p > Len(pages) THEN st
    ELSE LET data == [i \in 1..Len(fnames) |->
                         read_page(fnames[i], pagesize, pages[st.p])]
             check == parity_check(data)
         IN  test_parity_loop(fnames, pagesize, pages,
                 [passed |-> st.passed /\ check, check |-> check,
                  bound |-> TRUE, p |-> st.p + 1])

\* the verdict printed on the last line
test_parity(fnames, pagesize, pages) ==
    LET st == test_parity_loop(fnames, pagesize, pages,
                  [passed |-> TRUE, check |-> FALSE, bound |-> FALSE, p |-> 1])
    IN  [passed |-> st.passed,
         printed |-> IF ~st.bound THEN "NameError"
                     ELSE IF st.check THEN "passed" ELSE "FAILED"]

\* restore: st = [f, p], f the output file written so far
RECURSIVE restore_loop(_, _, _, _)
restore_loop(fnames, pagesize, pages, st) ==
    IF st.p > Len(pages) THEN [status |-> "ok", f |-> st.f]
    ELSE LET ndisks == Len(fnames)
             page == pages[st.p]
             stripes == raid5_stripes(ndisks, page, 0)
             data == [i \in 1..ndisks |-> read_page(fnames[i], pagesize, page)]
             sorted_idxs == Tail(argsort(stripes))
             written == Flatten([i \in 1..Len(sorted_idxs) |->
                                    data[sorted_idxs[i] + 1]])
         IN  IF ~parity_check(data)
             THEN [status |-> "GenericException", f |-> st.f]
             ELSE restore_loop(fnames, pagesize, pages,
                               [f |-> st.f \o written, p |-> st.p + 1])

restore(fnames, pagesize_kB, pages) ==
    restore_loop(fnames, pagesize_kB * BytesPerKB, pages, [f |-> <<>>, p |-> 1])

AsciiUniqueLimit == 80

_is_ascii(page, fname, pagesize) ==
    LET data == read_page(fname, pagesize, page)
        uniq == Cardinality({data[i] : i \in 1..Len(data)})
    IN  IF \A i \in 1..Len(data) : data[i] = 0 THEN "0"
        ELSE IF uniq < AsciiUniqueLimit THEN "1" ELSE "0"

\* str.find
Find(str, pattern) ==
    LET hits == {i \in 0..(Len(str) - Len(pattern)) :
                    SubSeq(str, i + 1, i + Len(pattern)) = pattern}
    IN  IF hits = {} THEN -1
        ELSE CHOOSE i \in hits : \A j \in hits : i <= j

_find_parity_page(fname, ndisks, page_size_kB, pages) ==
    LET pagesize == page_size_kB * BytesPerKB
        allflags == [i \in 1..Len(pages) |-> _is_ascii(pages[i], fname, pagesize)]
        search_flags == [i \in 1..ndisks |-> IF i < ndisks THEN "1" ELSE "0"]
        search_pattern == search_flags \o search_flags
    IN  Find(allflags, search_pattern)

RECURSIVE order_loop(_, _, _, _)
order_loop(order, fnames, parity_idx, i) ==
    IF i > Len(fnames) THEN order
    ELSE order_loop([order EXCEPT ![parity_idx[i] + 1] = fnames[i]],
                    fnames, parity_idx, i + 1)

guess_order(fnames, pagesize_kB, pages) ==
    LET ndisks == Len(fnames)
        idx == [i \in 1..ndisks |->
                   _find_parity_page(fnames[i], ndisks, pagesize_kB, pages)]
        parity_idx == [i \in 1..ndisks |-> (idx[i] + ndisks - 1) % ndisks]
        order == order_loop([i \in 1..ndisks |-> ""], fnames, parity_idx, 1)
    IN  IF \E i \in 1..ndisks : idx[i] = -1
        THEN [status |-> "GenericException", order |-> <<>>]
        ELSE [status |-> "ok", order |-> Reverse(order)]

(***************************** nbd_raid5.py ********************************)
\* the content of a byte of the host's buffer that pread has not written
Blank == 255 + 1

Images == 1..Len(geometry)

\* ndisks = len(set([image.raid_index for image in geometry]))
ndisks_of(geom) == Cardinality({geom[i].raid_index : i \in 1..Len(geom)})

RECURSIVE SumSeq(_)
SumSeq(s) == IF s = <<>> THEN 0 ELSE Head(s) + SumSeq(Tail(s))

get_size(geom) ==
    LET sizesKB == [i \in 1..Len(geom) |-> geom[i].endKB - geom[i].startKB]
        ndisks == ndisks_of(geom)
    IN  (SumSeq(sizesKB) * BytesPerKB * (ndisks - 1)) \div ndisks

\* end_page = (offset + len(buf)) // raidpagesize + 1
pread_end_page(offset, length, raidpagesize) ==
    (offset + length) \div raidpagesize + 1

\* a request at the head of its loop over the pages
pread_start(buf, offset) ==
    LET ndisks == ndisks_of(geometry)
        raidpagesize == pagesizeKB * BytesPerKB * (ndisks - 1)
    IN  [offset |-> offset, buf |-> buf,
         page |-> offset \div raidpagesize,
         end_page |-> pread_end_page(offset, Len(buf), raidpagesize),
         mod_page |-> offset % raidpagesize,
         pos |-> 0, mybuf |-> <<>>, reads |-> <<>>, j |-> 1, pc |-> "page"]

\* the image of the handle that holds the page of member raid_idx
covers(image, raid_idx, pageKB) ==
    image.raid_index = raid_idx /\ image.startKB <= pageKB /\ image.endKB > pageKB

\* the images read for a page, in the order of the two nested loops
page_reads(page) ==
    LET ndisks == ndisks_of(geometry)
        stripes == nbd_raid5_stripes(ndisks, page, 0)
        sorted_idxs == Tail(argsort(stripes))
        pageKB == page * pagesizeKB
        of_member(raid_idx) ==
            SelectSeq([i \in Images |-> i],
                      LAMBDA i : covers(geometry[i], raid_idx, pageKB))
    IN  Flatten([k \in 1..Len(sorted_idxs) |-> of_member(sorted_idxs[k])])

\* fd[image.id].seek(myoffset * 1024)
pread_seek(r, positions) ==
    LET image == geometry[r.reads[r.j]]
        pageKB == r.page * pagesizeKB
        myoffset == pageKB - image.startKB
    IN  [req |-> [r EXCEPT !.pc = "read"],
         fdpos |-> [positions EXCEPT ![image.id] = myoffset * BytesPerKB]]

\* mybuf.append(fd[image.id].read(pagesizeKB * 1024))
pread_read(r, positions) ==
    LET image == geometry[r.reads[r.j]]
        chunk == FileRead(files[image.fname], positions[image.id],
                          pagesizeKB * BytesPerKB)
    IN  [req |-> [r EXCEPT !.mybuf = @ \o chunk, !.j = @ + 1, !.pc = "seek"],
         fdpos |-> [positions EXCEPT ![image.id] = @ + Len(chunk)]]

\* faulty variant: mod_page is not reset after the first page
pread_copy_keeps_mod_page(r) ==
    LET mybuf == SubSeq(r.mybuf, r.mod_page + 1, Len(r.mybuf))
        mylen == IF r.pos + Len(mybuf) > Len(r.buf) THEN Len(r.buf) - r.pos
                 ELSE Len(mybuf)
    IN  IF mylen = 0 THEN [r EXCEPT !.pc = "done"]
        ELSE [r EXCEPT !.buf = SubSeq(r.buf, 1, r.pos) \o SubSeq(mybuf, 1, mylen)
                                \o SubSeq(r.buf, r.pos + mylen + 1, Len(r.buf)),
                       !.pos = @ + mylen, !.page = @ + 1, !.pc = "page"]

\* the end of the page's body: trim, copy into buf, next page
pread_copy(r) ==
    LET mybuf == SubSeq(r.mybuf, r.mod_page + 1, Len(r.mybuf))
        mylen == IF r.pos + Len(mybuf) > Len(r.buf) THEN Len(r.buf) - r.pos
                 ELSE Len(mybuf)
    IN  IF mylen = 0 THEN [r EXCEPT !.pc = "done"]
        ELSE [r EXCEPT !.buf = SubSeq(r.buf, 1, r.pos) \o SubSeq(mybuf, 1, mylen)
                                \o SubSeq(r.buf, r.pos + mylen + 1, Len(r.buf)),
                       !.pos = @ + mylen, !.mod_page = 0,
                       !.page = @ + 1, !.pc = "page"]

\* one step of a request: the head of the page loop, a seek, a read, or the
\* end of the page's body
pread_step(r, positions) ==
    CASE r.pc = "page" ->
           [req |-> IF r.page >= r.end_page THEN [r EXCEPT !.pc = "done"]
                    ELSE [r EXCEPT !.reads = page_reads(r.page), !.mybuf = <<>>,
                                   !.j = 1, !.pc = "seek"],
            fdpos |-> positions]
      [] r.pc = "seek" ->
           IF r.j > Len(r.reads)
           THEN [req |-> [r EXCEPT !.pc = "copy"], fdpos |-> positions]
           ELSE pread_seek(r, positions)
      [] r.pc = "read" -> pread_read(r, positions)
      [] r.pc = "copy" -> [req |-> pread_copy(r), fdpos |-> positions]

\* a request run to its end with no other request in between
RECURSIVE pread_run(_)
pread_run(st) ==
    IF st.req.pc = "done" THEN st ELSE pread_run(pread_step(st.req, st.fdpos))

pread(buf, offset, positions) ==
    pread_run([req |-> pread_start(buf, offset), fdpos |-> positions])

BlankBuf(length) == [i \in 1..length |-> Blank]

(****************************** operations *********************************)
\* the stripe map of a page, as both tools compute it
StripeMap(ndisks, page) ==
    /\ out = NoOp
    /\ out' = [op |-> "raid5_stripes", ndisks |-> ndisks, page |-> page,
               stripes |-> raid5_stripes(ndisks, page, 0),
               nbd_stripes |-> nbd_raid5_stripes(ndisks, page, 0)]
    /\ UNCHANGED <<files, D, geometry, pagesizeKB, fdpos, reqs>>

\* the arguments the operations are run with
Members == [c \in 1..(Cardinality(DOMAIN files) - 1) \div 3 |-> MemberNames[c]]

Rotate(s) == Tail(s) \o <<Head(s)>>

WithExtra(s) == <<ExtraName>> \o Tail(s)

MemberLists == {Members, Reverse(Members), Rotate(Members), WithExtra(Members)}

CandidateLists == {Members \o <<ExtraName>>, <<ExtraName>> \o Members}

PageLists == {<<>>, <<0>>, <<1>>, <<0, 1>>, <<1, 0>>, <<0, 1, 2>>,
              PyRange(0, NumPages)}

PageRanges == {PyRange(a, NumPages) : a \in 0..2}

TestParity(fnames, pages) ==
    /\ out = NoOp
    /\ out' = [op |-> "test_parity", fnames |-> fnames, pages |-> pages,
               result |-> test_parity(fnames, pagesizeKB * BytesPerKB, pages)]
    /\ UNCHANGED <<files, D, geometry, pagesizeKB, fdpos, reqs>>

GuessSet(fnames, ndisks, pages, test_all) ==
    /\ out = NoOp
    /\ out' = [op |-> "guess_set", fnames |-> fnames, ndisks |-> ndisks,
               pages |-> pages, test_all |-> test_all,
               result |-> guess_set(fnames, ndisks, pagesizeKB * BytesPerKB,
                                     pages, test_all)]
    /\ UNCHANGED <<files, D, geometry, pagesizeKB, fdpos, reqs>>

Restore(fnames, pages) ==
    /\ out = NoOp
    /\ out' = [op |-> "restore", fnames |-> fnames, pages |-> pages,
               result |-> restore(fnames, pagesizeKB, pages)]
    /\ UNCHANGED <<files, D, geometry, pagesizeKB, fdpos, reqs>>

GuessOrder(fnames, pages) ==
    /\ out = NoOp
    /\ out' = [op |-> "guess_order", fnames |-> fnames, pages |-> pages,
               result |-> guess_order(fnames, pagesizeKB, pages)]
    /\ UNCHANGED <<files, D, geometry, pagesizeKB, fdpos, reqs>>

\* the offsets asked for: at the start of the export and at its end
PreadOffsets ==
    (0..MaxOffset) \cup {get_size(geometry) - k : k \in 1..MaxBuf}

\* a pread request served alone; the host asks within the export's size
Pread(offset, length) ==
    /\ out = NoOp
    /\ offset >= 0
    /\ offset + length <= get_size(geometry)
    /\ LET st == pread(BlankBuf(length), offset, fdpos)
       IN  /\ out' = [op |-> "pread", offset |-> offset, len |-> length,
                      buf |-> st.req.buf, status |-> "ok"]
           /\ fdpos' = st.fdpos
    /\ UNCHANGED <<files, D, geometry, pagesizeKB, reqs>>

Next ==
    \/ \E ndisks \in 3..MaxDisks, page \in 0..NumPages : StripeMap(ndisks, page)
    \/ \E fnames \in MemberLists, pages \in PageLists : TestParity(fnames, pages)
    \/ \E fnames \in CandidateLists, pages \in PageLists, test_all \in BOOLEAN :
           GuessSet(fnames, Len(fnames) - 1, pages, test_all)
    \/ \E fnames \in MemberLists, pages \in PageLists : Restore(fnames, pages)
    \/ \E fnames \in MemberLists, pages \in PageRanges : GuessOrder(fnames, pages)
    \/ \E offset \in PreadOffsets, length \in 1..MaxBuf : Pread(offset, length)

Spec == Init /\ [][Next]_vars

(******************************* claims ***********************************)
PageSize == pagesizeKB * BytesPerKB

\* the image set: its width and the member files in column order
NDisks == ndisks_of(geometry)

StripeSize == PageSize * (NDisks - 1)

\* the member files on disk are the volume D striped, undamaged
Pristine ==
    \A c \in 1..NDisks : files[MemberNames[c]] = MemberFile(D, NDisks, PageSize, c - 1)

\* the mount has one image per member, each starting at offset 0 and being
\* that member's file
OneImagePerMember ==
    /\ Len(geometry) = NDisks
    /\ \A i \in Images : /\ geometry[i].startKB = 0
                         /\ geometry[i].fname = MemberNames[geometry[i].raid_index + 1]

ParityHolds(fnames, page) ==
    parity_check([i \in 1..Len(fnames) |-> read_page(fnames[i], PageSize, page)])

\* C1 (translator equivalence): on a synthesised image set mounted with one
\* image per member from offset 0, a pread of len >= 1 bytes at offset, with
\* offset + len <= |D|, fills the buffer with exactly D[offset : offset+len].
TranslatorEquivalence ==
    (/\ out.op = "pread"
     /\ Pristine
     /\ OneImagePerMember
     /\ out.len >= 1
     /\ out.offset + out.len <= Len(D))
    => out.buf = SubSeq(D, out.offset + 1, out.offset + out.len)

\* a read that starts inside a page of a rotated stripe and crosses into the
\* next stripe
TranslatorEquivalenceWitness ==
    /\ out.op = "pread"
    /\ Pristine
    /\ OneImagePerMember
    /\ out.offset % PageSize # 0
    /\ (out.offset \div StripeSize) % NDisks # 0
    /\ (out.offset % StripeSize) + out.len > StripeSize
    /\ out.buf = SubSeq(D, out.offset + 1, out.offset + out.len)

\* C2 (restore round-trip): restore of a synthesised image set, members in
\* column order and pages 0..|D|/(P*(N-1))-1 ascending, writes exactly D.
RestoreRoundTrip ==
    (/\ out.op = "restore"
     /\ Pristine
     /\ out.fnames = Members
     /\ out.pages = PyRange(0, Len(D) \div StripeSize))
    => /\ out.result.status = "ok"
       /\ out.result.f = D

RestoreRoundTripWitness ==
    /\ out.op = "restore"
    /\ Pristine
    /\ out.fnames = Members
    /\ out.pages = PyRange(0, Len(D) \div StripeSize)
    /\ Len(out.pages) > NDisks
    /\ out.result.f = D

\* C3 (stripe-map shape): raid5_stripes(N, page) has length N, exactly one
\* -1, and N-1 distinct non-negative values that are exactly
\* page*(N-1) .. page*(N-1)+N-2; in both tools.
HasShape(stripes, n, page) ==
    /\ Len(stripes) = n
    /\ Cardinality({i \in 1..n : stripes[i] = -1}) = 1
    /\ Cardinality({i \in 1..n : stripes[i] >= 0}) = n - 1
    /\ {stripes[i] : i \in {j \in 1..n : stripes[j] # -1}}
           = (page * (n - 1))..(page * (n - 1) + n - 2)

StripeMapShape ==
    out.op = "raid5_stripes"
    => /\ HasShape(out.stripes, out.ndisks, out.page)
       /\ HasShape(out.nbd_stripes, out.ndisks, out.page)

StripeMapShapeWitness ==
    /\ out.op = "raid5_stripes"
    /\ out.page > out.ndisks
    /\ out.page % out.ndisks # 0
    /\ HasShape(out.stripes, out.ndisks, out.page)

ParityIndex(stripes) == (CHOOSE i \in 1..Len(stripes) : stripes[i] = -1) - 1

\* C4 as claimed (parity rotation): the index of the -1 in raid5_stripes(N,
\* page) is (N - (page mod N)) mod N.
ParityRotationClaimed ==
    out.op = "raid5_stripes"
    => ParityIndex(out.stripes) = (out.ndisks - (out.page % out.ndisks)) % out.ndisks

\* C4 as amended: the index of the -1 in raid5_stripes(N, page) is
\* (N - 1 - (page mod N)) mod N; in both tools.
ParityRotation ==
    out.op = "raid5_stripes"
    => LET at == (out.ndisks - 1 - (out.page % out.ndisks)) % out.ndisks
       IN  /\ ParityIndex(out.stripes) = at
           /\ ParityIndex(out.nbd_stripes) = at

ParityRotationWitness ==
    /\ out.op = "raid5_stripes"
    /\ out.page % out.ndisks = out.ndisks - 1
    /\ ParityIndex(out.stripes) = 0

\* C5 (parity scanner verdict): for N >= 3 files and a non-empty page list,
\* test_parity reports 'passed' if and only if parity_check holds on every
\* page of the list, a failure on any page making the verdict 'FAILED'.
ParityVerdict ==
    (/\ out.op = "test_parity"
     /\ Len(out.fnames) >= 3
     /\ out.pages # <<>>)
    => /\ out.result.printed \in {"passed", "FAILED"}
       /\ out.result.printed = "passed"
              <=> \A i \in 1..Len(out.pages) : ParityHolds(out.fnames, out.pages[i])

\* the r-combinations of a list, as a set: one per set of r positions
KthOf(S, k) == CHOOSE x \in S : Cardinality({y \in S : y < x}) = k - 1

AllCombinations(fnames, r) ==
    {[k \in 1..r |-> fnames[KthOf(S, k)]] :
        S \in {T \in SUBSET (1..Len(fnames)) : Cardinality(T) = r}}

Returned(result) == {result.good_combs[i] : i \in 1..Len(result.good_combs)}

ChecksOf(result, comb) ==
    LET i == CHOOSE j \in 1..Len(result.detected) : result.detected[j].comb = comb
    IN  result.detected[i].checks

\* C6 (membership search, test_all): for a non-empty page list, guess_set
\* with test_all evaluates every N-combination on every page and returns a
\* combination if and only if its parity holds on every page.
MembershipTestAll ==
    (/\ out.op = "guess_set"
     /\ out.test_all
     /\ out.pages # <<>>)
    => /\ Returned(out.result) \subseteq AllCombinations(out.fnames, out.ndisks)
       /\ \A comb \in AllCombinations(out.fnames, out.ndisks) :
             /\ \E j \in 1..Len(out.result.detected) :
                    out.result.detected[j].comb = comb
             /\ Len(ChecksOf(out.result, comb)) = Len(out.pages)
             /\ comb \in Returned(out.result)
                    <=> \A i \in 1..Len(out.pages) : ParityHolds(comb, out.pages[i])

\* one combination is returned and another, whose parity holds on one page
\* and fails on another, is rejected
MembershipTestAllWitness ==
    /\ out.op = "guess_set"
    /\ out.test_all
    /\ Returned(out.result) # {}
    /\ \E comb \in AllCombinations(out.fnames, out.ndisks) :
          /\ comb \notin Returned(out.result)
          /\ \E i \in 1..Len(out.pages) : ParityHolds(comb, out.pages[i])
          /\ \E i \in 1..Len(out.pages) : ~ParityHolds(comb, out.pages[i])

\* C7 as claimed (membership search, first match): without test_all,
\* guess_set returns a combination if and only if its parity holds on some
\* page, whatever it does on the other pages.
MembershipFirstMatchClaimed ==
    (/\ out.op = "guess_set"
     /\ ~out.test_all)
    => \A comb \in AllCombinations(out.fnames, out.ndisks) :
           comb \in Returned(out.result)
               <=> \E i \in 1..Len(out.pages) : ParityHolds(comb, out.pages[i])

\* C7 as amended: without test_all, on every page guess_set evaluates the
\* combinations in itertools order up to and including the first whose
\* parity holds and skips the rest for that page; it returns exactly the
\* combinations evaluated on at least one page whose parity holds on every
\* page they were evaluated on.
MembershipFirstMatch ==
    (/\ out.op = "guess_set"
     /\ ~out.test_all)
    => LET combs == combinations(out.fnames, out.ndisks)
           evaluated(k, i) ==
               \A j \in 1..(k - 1) : ~ParityHolds(combs[j], out.pages[i])
           accepted(k) ==
               /\ \E i \in 1..Len(out.pages) : evaluated(k, i)
               /\ \A i \in 1..Len(out.pages) :
                      evaluated(k, i) => ParityHolds(combs[k], out.pages[i])
       IN  Returned(out.result) = {combs[k] : k \in {j \in 1..Len(combs) : accepted(j)}}

\* a combination whose parity holds on a page is rejected for its failure on
\* another page, and one is skipped on a page where its parity holds
MembershipFirstMatchWitness ==
    /\ out.op = "guess_set"
    /\ ~out.test_all
    /\ Returned(out.result) # {}
    /\ \E comb \in AllCombinations(out.fnames, out.ndisks) :
          /\ comb \notin Returned(out.result)
          /\ \E j \in 1..Len(out.result.detected) : out.result.detected[j].comb = comb
          /\ \E i \in 1..Len(out.pages) : ParityHolds(comb, out.pages[i])
    /\ \E comb \in Returned(out.result) :
          /\ Len(ChecksOf(out.result, comb)) < Len(out.pages)
          /\ \A i \in 1..Len(out.pages) : ParityHolds(comb, out.pages[i])

IsPermutation(s, t) ==
    /\ Len(s) = Len(t)
    /\ {s[i] : i \in 1..Len(s)} = {t[i] : i \in 1..Len(t)}

\* on the sampled pages every data page classifies as '1' and every parity
\* page as '0'
ClassifiesCleanly(pages) ==
    \A c \in 1..NDisks, i \in 1..Len(pages) :
        _is_ascii(pages[i], MemberNames[c], PageSize)
            = IF \E d \in 0..(NDisks - 2) : DataColumn(NDisks, pages[i], d) = c - 1
              THEN "1" ELSE "0"

\* C8 (order inference): on a synthesised set whose data pages classify as
\* '1' and parity pages as '0', guess_order given the members in any order and
\* any contiguous page range that contains the signature, also one whose
\* first page is no multiple of N, returns the members in column order.
OrderInference ==
    (/\ out.op = "guess_order"
     /\ Pristine
     /\ IsPermutation(out.fnames, Members)
     /\ ClassifiesCleanly(out.pages)
     /\ out.result.status = "ok")
    => out.result.order = Members

\* the bytes [offset, offset+len) of the volume lie in a data page of a
\* member that no image of the mount covers
NeedsUncovered(offset, length) ==
    \E b \in offset..(offset + length - 1) :
        LET k == b \div PageSize
            s == k \div (NDisks - 1)
            c == DataColumn(NDisks, s, k % (NDisks - 1))
        IN  ~\E i \in Images : covers(geometry[i], c, s * pagesizeKB)

\* C9 (geometry gap): a pread that needs a page of a data member that no
\* image covers fails with GeometryGap, and never returns normally.
GeometryGap ==
    (/\ out.op = "pread"
     /\ NeedsUncovered(out.offset, out.len))
    => out.status = "GeometryGap"

(************************** concurrent serving *****************************)
\* Two requests of one connection share the handle; the host may run them
\* concurrently, so their steps interleave.
Requests == 1..2

Idle == [pread_start(<<>>, 0) EXCEPT !.pc = "idle"]

ConcScenarios == {s \in Scenarios : s.n = 3 /\ s.kind = "ramp" /\ s.bad = {}
                                    /\ s.extra = "copy" /\ s.geom = "full"}

ConcRequests == {<<0, 4>>, <<2, 5>>, <<4, 3>>}

InitConc ==
    /\ \E s \in ConcScenarios : InitScenario(s)
    /\ reqs = [r \in Requests |-> Idle]

Arrive(r, offset, length) ==
    /\ reqs[r].pc = "idle"
    /\ reqs' = [reqs EXCEPT ![r] = pread_start(BlankBuf(length), offset)]
    /\ UNCHANGED <<files, D, geometry, pagesizeKB, fdpos, out>>

Step(r) ==
    /\ reqs[r].pc \notin {"idle", "done"}
    /\ LET st == pread_step(reqs[r], fdpos)
       IN  /\ reqs' = [reqs EXCEPT ![r] = st.req]
           /\ fdpos' = st.fdpos
    /\ UNCHANGED <<files, D, geometry, pagesizeKB, out>>

NextConc ==
    \/ \E r \in Requests, q \in ConcRequests : Arrive(r, q[1], q[2])
    \/ \E r \in Requests : Step(r)

SpecConc == InitConc /\ [][NextConc]_vars

\* C10 (concurrent pread isolation): under every interleaving of the seek
\* and read steps of two requests on one handle, each request fills its
\* buffer with the bytes it gets when run alone.
ConcurrentIsolation ==
    \A r \in Requests :
        reqs[r].pc = "done"
        => reqs[r].buf =
               pread(BlankBuf(Len(reqs[r].buf)), reqs[r].offset, fdpos).req.buf

====
